---------------------------- MODULE Spec2Model ----------------------------
(***************************************************************************)
(* One invocation of the Subspace CLI (src/src/main.rs, fn main).          *)
(*                                                                         *)
(* The state is the position of main between its await points, the parsed  *)
(* command line, the values main binds (maybe_block_hash, block_hash, the  *)
(* storage iterator), the requests sent to the node with the answers the   *)
(* node gave, and what the process wrote and returned.  The node is the    *)
(* environment: every answer is drawn from a small set, transport errors   *)
(* included.                                                               *)
(*                                                                         *)
(* A u32 is kept as two 16-bit limbs [hi, lo] (value hi * 65536 + lo):     *)
(* TLC's integers are 32-bit signed and cannot hold u32::MAX.              *)
(***************************************************************************)
EXTENDS Integers, Sequences, FiniteSets, TLC

VARIABLES
    cli,               \* SubspaceCli after parse(): block_number, block_hash, command
    pc,                \* position of main
    maybe_block_hash,  \* main.rs:72
    block_hash,        \* main.rs:86
    rpcLog,            \* requests issued to the node so far, with their answers
    iter,              \* the storage iterator of main.rs:111 (None until opened)
    item,              \* the (key, hash) pair bound by the while-let of main.rs:117
    stdout,            \* lines printed with println!
    stderr,            \* the error or panic message reported on exit
    exitCode           \* process exit status (None while running)

vars == <<cli, pc, maybe_block_hash, block_hash, rpcLog, iter, item,
          stdout, stderr, exitCode>>

---------------------------------------------------------------------------
(* Bounds of the model *)

\* Longest storage map the node's cursor yields.
MaxCursorLen == 2

---------------------------------------------------------------------------
(* Option and Result values *)

None == [some |-> FALSE]
Some(v) == [some |-> TRUE, val |-> v]

Ok(v) == [ok |-> TRUE, val |-> v]
Err(e) == [ok |-> FALSE, err |-> e]

\* A u32 as two 16-bit limbs.
U32(h, l) == [hi |-> h, lo |-> l]

U32Max == U32(65535, 65535)

---------------------------------------------------------------------------
(* The storage key codec of the BlockHash subcommand *)

TWOX_HASH_LEN == 16

STORAGE_PREFIX_LEN == 64

HexDigits == <<"0", "1", "2", "3", "4", "5", "6", "7",
               "8", "9", "a", "b", "c", "d", "e", "f">>

UpperHexDigits == <<"0", "1", "2", "3", "4", "5", "6", "7",
                    "8", "9", "A", "B", "C", "D", "E", "F">>

\* hex::encode: two lower-case digits per byte, high nibble first.
HexEncode(bytes) ==
    [i \in 1..(2 * Len(bytes)) |->
        LET b == bytes[(i + 1) \div 2]
        IN  IF i % 2 = 1 THEN HexDigits[(b \div 16) + 1]
                         ELSE HexDigits[(b % 16) + 1]]

\* The value of one hex digit, -1 for any other character.
HexVal(c) ==
    IF \E d \in 1..16 : HexDigits[d] = c
    THEN (CHOOSE d \in 1..16 : HexDigits[d] = c) - 1
    ELSE IF \E d \in 1..16 : UpperHexDigits[d] = c
         THEN (CHOOSE d \in 1..16 : UpperHexDigits[d] = c) - 1
         ELSE -1

\* hex::decode: fails on an odd length or on a character that is no hex digit.
HexDecode(s) ==
    IF Len(s) % 2 = 1 THEN Err("OddLength")
    ELSE IF \E i \in 1..Len(s) : HexVal(s[i]) = -1 THEN Err("InvalidHexCharacter")
    ELSE Ok([i \in 1..(Len(s) \div 2) |->
                16 * HexVal(s[2 * i - 1]) + HexVal(s[2 * i])])

\* &key[from..] on an ASCII string: panics when from is past the end.
StrSliceFrom(s, from) ==
    IF from > Len(s) THEN Err("panic: byte index out of range")
    ELSE Ok(SubSeq(s, from + 1, Len(s)))

\* A plausible slip: the four bytes read most-significant first.
DecodeU32BigEndian(bytes) ==
    IF Len(bytes) < 4 THEN Err("Not enough data to fill buffer")
    ELSE Ok(U32(bytes[2] + 256 * bytes[1], bytes[4] + 256 * bytes[3]))

\* <u32 as Decode>::decode(&mut &[u8]): reads the first four bytes of the
\* input, little-endian, and leaves what follows them unread.
DecodeU32(bytes) ==
    IF Len(bytes) < 4 THEN Err("Not enough data to fill buffer")
    ELSE Ok(U32(bytes[3] + 256 * bytes[4], bytes[1] + 256 * bytes[2]))

\* main.rs:118-121: the block number of one storage key.
\* tag "ok" with the number, "err" (the ? operator returns the error from
\* main) or "panic" (the slice index is out of range).
DecodeKey(keyBytes) ==
    LET key == HexEncode(keyBytes)
        rest == StrSliceFrom(key, STORAGE_PREFIX_LEN + TWOX_HASH_LEN)
    IN  IF ~rest.ok THEN [tag |-> "panic", msg |-> rest.err]
        ELSE LET raw == HexDecode(rest.val)
             IN  IF ~raw.ok THEN [tag |-> "err", msg |-> raw.err]
                 ELSE LET n == DecodeU32(raw.val)
                      IN  IF ~n.ok THEN [tag |-> "err", msg |-> n.err]
                          ELSE [tag |-> "ok", number |-> n.val]

---------------------------------------------------------------------------
(* What the node may hold and answer *)

\* The four bytes the node stores for a block number: little-endian.
EncodeU32LE(n) == <<n.lo % 256, n.lo \div 256, n.hi % 256, n.hi \div 256>>

\* 40 bytes: the 32-byte storage prefix and the 8-byte Twox64 item hash.
PrefixLen == (STORAGE_PREFIX_LEN + TWOX_HASH_LEN) \div 2

ZeroPrefix == [i \in 1..PrefixLen |-> 0]
OnesPrefix == [i \in 1..PrefixLen |-> 255]
MixedPrefix == [i \in 1..PrefixLen |-> (i * 37 + 11) % 256]

\* Keys of the layout prefix ++ little-endian block number.
WellFormedKey(p, n) == p \o EncodeU32LE(n)

\* (prefix, block number) pairs: 1, 0, u32::MAX, 0x01020304, 500, 2^16, 2^31.
WellFormedPairs ==
    {<<ZeroPrefix, U32(0, 1)>>, <<ZeroPrefix, U32(0, 0)>>,
     <<OnesPrefix, U32Max>>, <<MixedPrefix, U32(258, 772)>>,
     <<MixedPrefix, U32(0, 500)>>, <<OnesPrefix, U32(1, 0)>>,
     <<ZeroPrefix, U32(32768, 0)>>}

WellFormedKeys == {WellFormedKey(pn[1], pn[2]) : pn \in WellFormedPairs}

\* Keys of any other length: shorter than the prefix, no remainder, a
\* remainder of 2 bytes, of 5 bytes and of 8 bytes.
MalformedKeys ==
    {SubSeq(ZeroPrefix, 1, PrefixLen - 1),
     MixedPrefix,
     ZeroPrefix \o <<1, 0>>,
     ZeroPrefix \o EncodeU32LE(U32(0, 1)) \o <<0>>,
     MixedPrefix \o EncodeU32LE(U32(0, 500)) \o EncodeU32LE(U32(0, 7))}

\* Hashes the node may answer with: one that --block-hash may name, one not.
Hashes == {"0xaa", "0xcc"}

\* (key, value) pairs a cursor over the BlockHash map may yield.
CursorItems ==
    {[key |-> k, hash |-> "0xaa"] : k \in WellFormedKeys \cup MalformedKeys}
    \cup {[key |-> WellFormedKey(ZeroPrefix, U32(0, 1)), hash |-> "0xbb"]}

Cursors == UNION {[1..n -> CursorItems] : n \in 0..MaxCursorLen}

\* Answers to chain_getBlockHash: a transport error, no hash, or a hash.
BlockHashAnswers == {Err("rpc")} \cup {Ok(None)} \cup {Ok(Some(h)) : h \in Hashes}

\* Answers to a single storage read: a transport error or a value.
StorageAnswers == {Err("rpc"), Ok("value")}

---------------------------------------------------------------------------
(* The command line *)

Commands == {"Snapshot", "Account", "Events", "BlockHash"}

\* Values given to --block-number and --block-hash.
CliNumbers == {U32(0, 500)}
CliHashes == {"0xaa", "0xbb"}

CliArgs ==
    [block_number : {None} \cup {Some(n) : n \in CliNumbers},
     block_hash   : {None} \cup {Some(h) : h \in CliHashes},
     command      : Commands]

---------------------------------------------------------------------------
(* Process exit *)

\* main returned Ok(()).
ExitSuccess == 0

\* main returned Err(_): the runtime prints "Error: ..." and exits 1.
ExitFailure == 1

\* A panic on the main thread.
ExitPanic == 101

ErrorMsg(cause, text) ==
    Some([kind |-> "Error", cause |-> cause, text |-> text, arg |-> None])

PanicMsg(cause, text, arg) ==
    Some([kind |-> "panic", cause |-> cause, text |-> text, arg |-> arg])

\* main.rs:79
MissingNumberMsg(n) ==
    PanicMsg("resolution", "Block hash for block number {} not found", Some(n))

\* main.rs:93
MissingBestMsg == PanicMsg("resolution", "Best block hash not found", None)

Exit(code, msg) ==
    /\ pc' = "exited"
    /\ exitCode' = Some(code)
    /\ stderr' = msg

Running == UNCHANGED <<exitCode, stderr>>

\* One request to the node: the call, its argument, the block it is made
\* at (None for a call that takes none) and the node's answer.
Request(method, arg, at, answer) ==
    [method |-> method, arg |-> arg, at |-> at, answer |-> answer]

Send(method, arg, at, answer) ==
    rpcLog' = Append(rpcLog, Request(method, arg, at, answer))

---------------------------------------------------------------------------
(* main *)

Init ==
    /\ cli \in CliArgs
    /\ pc = "build"
    /\ maybe_block_hash = None
    /\ block_hash = None
    /\ rpcLog = <<>>
    /\ iter = None
    /\ item = None
    /\ stdout = <<>>
    /\ stderr = None
    /\ exitCode = None

\* main.rs:66-70: connect to the node; a failure is returned by `?`.
Build ==
    /\ pc = "build"
    /\ \E answer \in {Err("rpc"), Ok("client")} :
         /\ Send("connect", None, None, answer)
         /\ IF answer.ok
            THEN pc' = "resolve" /\ Running
            ELSE Exit(ExitFailure, ErrorMsg("rpc", answer.err))
    /\ UNCHANGED <<cli, maybe_block_hash, block_hash, iter, item, stdout>>

\* A plausible slip: the explicit hash wins over the number.
UseNumberUnlessHash == cli.block_number.some /\ ~cli.block_hash.some

\* main.rs:72: `if let Some(block_number) = cli.block_number`.
UseNumber == cli.block_number.some

\* A plausible slip: unwrap_or(cli.block_hash) in place of the panic.
ResolveByNumberFallback ==
    /\ pc = "resolve"
    /\ UseNumber
    /\ \E answer \in BlockHashAnswers :
         /\ Send("chain_getBlockHash", cli.block_number, None, answer)
         /\ IF ~answer.ok
            THEN /\ Exit(ExitFailure, ErrorMsg("rpc", answer.err))
                 /\ UNCHANGED maybe_block_hash
            ELSE /\ maybe_block_hash' =
                       IF answer.val.some THEN answer.val ELSE cli.block_hash
                 /\ pc' = "best"
                 /\ Running
    /\ UNCHANGED <<cli, block_hash, iter, item, stdout>>

\* main.rs:72-81: ask the node for the hash of block_number; a transport
\* error is returned by `?`, no hash for the number panics.
ResolveByNumber ==
    /\ pc = "resolve"
    /\ UseNumber
    /\ \E answer \in BlockHashAnswers :
         /\ Send("chain_getBlockHash", cli.block_number, None, answer)
         /\ IF ~answer.ok
            THEN /\ Exit(ExitFailure, ErrorMsg("rpc", answer.err))
                 /\ UNCHANGED maybe_block_hash
            ELSE IF ~answer.val.some
            THEN /\ Exit(ExitPanic, MissingNumberMsg(cli.block_number.val))
                 /\ UNCHANGED maybe_block_hash
            ELSE /\ maybe_block_hash' = answer.val
                 /\ pc' = "best"
                 /\ Running
    /\ UNCHANGED <<cli, block_hash, iter, item, stdout>>

\* A plausible slip: the explicit hash is looked up on the node first.
UseExplicitHashChecked ==
    /\ pc = "resolve"
    /\ ~UseNumber
    /\ IF cli.block_hash.some
       THEN Send("chain_getBlockHash", cli.block_hash, None, Ok(cli.block_hash))
       ELSE UNCHANGED rpcLog
    /\ maybe_block_hash' = cli.block_hash
    /\ pc' = "best"
    /\ UNCHANGED <<cli, block_hash, iter, item, stdout, stderr, exitCode>>

\* main.rs:82-84: no number given, take --block-hash as it is.
UseExplicitHash ==
    /\ pc = "resolve"
    /\ ~UseNumber
    /\ maybe_block_hash' = cli.block_hash
    /\ pc' = "best"
    /\ UNCHANGED <<cli, block_hash, rpcLog, iter, item, stdout, stderr, exitCode>>

\* A plausible slip: the best block is looked up whatever was resolved.
BestNeededAlways == TRUE

\* main.rs:86-88: the None arm of `match maybe_block_hash`.
BestNeeded == ~maybe_block_hash.some

\* main.rs:86-87: the Some arm.
UseResolvedHash ==
    /\ pc = "best"
    /\ ~BestNeeded
    /\ block_hash' = maybe_block_hash
    /\ pc' = "dispatch"
    /\ UNCHANGED <<cli, maybe_block_hash, rpcLog, iter, item, stdout, stderr, exitCode>>

\* main.rs:88-93: ask the node for its best block hash; a transport error
\* is returned by `?`, no hash panics.
BestBlockLookup ==
    /\ pc = "best"
    /\ BestNeeded
    /\ \E answer \in BlockHashAnswers :
         /\ Send("chain_getBlockHash", None, None, answer)
         /\ IF ~answer.ok
            THEN /\ Exit(ExitFailure, ErrorMsg("rpc", answer.err))
                 /\ UNCHANGED block_hash
            ELSE IF ~answer.val.some
            THEN /\ Exit(ExitPanic, MissingBestMsg)
                 /\ UNCHANGED block_hash
            ELSE /\ block_hash' = answer.val
                 /\ pc' = "dispatch"
                 /\ Running
    /\ UNCHANGED <<cli, maybe_block_hash, iter, item, stdout>>

\* A plausible slip: the query is made at --block-hash, not at the
\* resolved hash.
QueryAtExplicit == cli.block_hash

\* main.rs:97,100,104,114: the `Some(block_hash)` every query is given.
QueryAt == block_hash

\* main.rs:97: call the snapshot exporter with the resolved hash.
CallSnapshot ==
    /\ pc = "dispatch"
    /\ cli.command = "Snapshot"
    /\ pc' = "snapshot"
    /\ UNCHANGED <<cli, maybe_block_hash, block_hash, rpcLog, iter, item, stdout,
                   stderr, exitCode>>

\* main.rs:99-102: read the account and print the Result itself.
Account ==
    /\ pc = "dispatch"
    /\ cli.command = "Account"
    /\ \E answer \in StorageAnswers :
         /\ Send("System.Account", Some("who"), QueryAt, answer)
         /\ stdout' = Append(stdout, [debug |-> answer])
    /\ Exit(ExitSuccess, None)
    /\ UNCHANGED <<cli, maybe_block_hash, block_hash, iter, item>>

\* main.rs:103-106: read the events and print the Result itself.
Events ==
    /\ pc = "dispatch"
    /\ cli.command = "Events"
    /\ \E answer \in StorageAnswers :
         /\ Send("System.Events", None, QueryAt, answer)
         /\ stdout' = Append(stdout, [debug |-> answer])
    /\ Exit(ExitSuccess, None)
    /\ UNCHANGED <<cli, maybe_block_hash, block_hash, iter, item>>

\* main.rs:111-115: open the iterator over System.BlockHash.
BlockHashIter ==
    /\ pc = "dispatch"
    /\ cli.command = "BlockHash"
    /\ \E ok \in BOOLEAN :
         IF ok
         THEN /\ \E c \in Cursors :
                   iter' = Some([at |-> QueryAt, items |-> c, pos |-> 0])
              /\ Send("System.BlockHash.iter", None, QueryAt, Ok("iter"))
              /\ pc' = "iter"
              /\ Running
         ELSE /\ Send("System.BlockHash.iter", None, QueryAt, Err("rpc"))
              /\ Exit(ExitFailure, ErrorMsg("rpc", "rpc"))
              /\ UNCHANGED iter
    /\ UNCHANGED <<cli, maybe_block_hash, block_hash, item, stdout>>

\* main.rs:117: `iter.next().await?`; None ends the loop and main returns
\* Ok(()) at main.rs:128.
IterNext ==
    /\ pc = "iter"
    /\ LET it == iter.val
       IN  \E ok \in BOOLEAN :
             IF ~ok
             THEN /\ Send("System.BlockHash.next", None, it.at, Err("rpc"))
                  /\ Exit(ExitFailure, ErrorMsg("rpc", "rpc"))
                  /\ UNCHANGED <<iter, item>>
             ELSE IF it.pos = Len(it.items)
             THEN /\ Send("System.BlockHash.next", None, it.at, Ok(None))
                  /\ Exit(ExitSuccess, None)
                  /\ UNCHANGED <<iter, item>>
             ELSE /\ Send("System.BlockHash.next", None, it.at,
                          Ok(Some(it.items[it.pos + 1])))
                  /\ iter' = Some([it EXCEPT !.pos = it.pos + 1])
                  /\ item' = Some(it.items[it.pos + 1])
                  /\ pc' = "decode"
                  /\ Running
    /\ UNCHANGED <<cli, maybe_block_hash, block_hash, stdout>>

\* A plausible slip: the newest line is put first.
EmitFirst(out, line) == <<line>> \o out

\* main.rs:122: println! appends one line.
Emit(out, line) == Append(out, line)

\* A plausible slip: a key that does not decode is skipped.
DecodeAndPrintSkipping ==
    /\ pc = "decode"
    /\ LET d == DecodeKey(item.val.key)
       IN  IF d.tag = "ok"
           THEN stdout' = Emit(stdout, [number |-> d.number, hash |-> item.val.hash])
           ELSE UNCHANGED stdout
    /\ item' = None
    /\ pc' = "iter"
    /\ UNCHANGED <<cli, maybe_block_hash, block_hash, rpcLog, iter, stderr, exitCode>>

\* main.rs:118-122: decode the block number of the key and print the entry;
\* a decode error is returned by `?`, a key shorter than the prefix panics.
DecodeAndPrint ==
    /\ pc = "decode"
    /\ LET d == DecodeKey(item.val.key)
       IN  IF d.tag = "ok"
           THEN /\ stdout' = Emit(stdout, [number |-> d.number, hash |-> item.val.hash])
                /\ item' = None
                /\ pc' = "iter"
                /\ Running
           ELSE IF d.tag = "err"
           THEN /\ Exit(ExitFailure, ErrorMsg("decode", d.msg))
                /\ UNCHANGED <<stdout, item>>
           ELSE /\ Exit(ExitPanic, PanicMsg("decode", d.msg, None))
                /\ UNCHANGED <<stdout, item>>
    /\ UNCHANGED <<cli, maybe_block_hash, block_hash, rpcLog, iter>>

---------------------------------------------------------------------------
(* The snapshot exporter (commands::snapshot): table reads at the hash it  *)
(* was given, the first failed read returned to main, which returns it.    *)

\* Most tables one export reads.
MaxSnapshotReads == 2

SnapshotReads == Len(SelectSeq(rpcLog, LAMBDA r : r.method = "snapshot.read"))

SnapshotRead ==
    /\ pc = "snapshot"
    /\ SnapshotReads < MaxSnapshotReads
    /\ \E answer \in StorageAnswers :
         /\ Send("snapshot.read", None, QueryAt, answer)
         /\ IF answer.ok
            THEN UNCHANGED <<pc, exitCode, stderr>>
            ELSE Exit(ExitFailure, ErrorMsg("rpc", answer.err))
    /\ UNCHANGED <<cli, maybe_block_hash, block_hash, iter, item, stdout>>

SnapshotDone ==
    /\ pc = "snapshot"
    /\ Exit(ExitSuccess, None)
    /\ UNCHANGED <<cli, maybe_block_hash, block_hash, rpcLog, iter, item, stdout>>

---------------------------------------------------------------------------

Next ==
    \/ Build
    \/ ResolveByNumber
    \/ UseExplicitHash
    \/ UseResolvedHash
    \/ BestBlockLookup
    \/ CallSnapshot
    \/ Account
    \/ Events
    \/ BlockHashIter
    \/ IterNext
    \/ DecodeAndPrint
    \/ SnapshotRead
    \/ SnapshotDone

Spec == Init /\ [][Next]_vars

---------------------------------------------------------------------------
(* Vocabulary of the properties *)

Exited == pc = "exited"

LogIndex == 1..Len(rpcLog)

IsBlockHashCall(r) == r.method = "chain_getBlockHash"

IsNumberCall(r) == IsBlockHashCall(r) /\ r.arg.some

IsBestCall(r) == IsBlockHashCall(r) /\ ~r.arg.some

StorageMethods == {"System.Account", "System.Events", "System.BlockHash.iter",
                   "System.BlockHash.next", "snapshot.read"}

IsStorageQuery(r) == r.method \in StorageMethods

NumberCalls == SelectSeq(rpcLog, IsNumberCall)

BestCalls == SelectSeq(rpcLog, IsBestCall)

NextCalls == SelectSeq(rpcLog, LAMBDA r : r.method = "System.BlockHash.next")

Connected == Len(rpcLog) >= 1 /\ rpcLog[1].method = "connect" /\ rpcLog[1].answer.ok

\* A request failed in transport.
RpcFailed == \E i \in LogIndex : ~rpcLog[i].answer.ok

\* The node had no hash for the block asked for.
ResolutionFailed ==
    \E i \in LogIndex : IsBlockHashCall(rpcLog[i]) /\ rpcLog[i].answer.ok
                        /\ ~rpcLog[i].answer.val.some

\* The key bound at main.rs:117 went through main.rs:118-121 and gave no number.
DecodeFailed ==
    /\ item.some
    /\ pc # "decode"
    /\ DecodeKey(item.val.key).tag # "ok"

Failed == RpcFailed \/ ResolutionFailed \/ DecodeFailed

\* The line main.rs:122 prints for a cursor item whose key decodes.
EntryOf(it) == [number |-> DecodeKey(it.key).number, hash |-> it.hash]

\* The lines for the first k items of the cursor, in the cursor's order.
Entries(k) == [j \in 1..k |-> EntryOf(iter.val.items[j])]

\* Bytes of an encoded u32.
U32Bytes == 4

---------------------------------------------------------------------------
(* C1 *)

\* C1: resolution precedence is number > hash > best block.  Once a hash is
\* resolved: with --block-number set (whatever --block-hash is) it is the
\* answer of the one chain_getBlockHash(number) call; with only --block-hash
\* set it is that hash; with neither it is the answer of the best-block call.
C1_Precedence ==
    block_hash.some =>
        IF cli.block_number.some
        THEN /\ Len(NumberCalls) = 1
             /\ NumberCalls[1].arg = cli.block_number
             /\ NumberCalls[1].answer = Ok(block_hash)
        ELSE IF cli.block_hash.some
        THEN block_hash = cli.block_hash
        ELSE /\ Len(BestCalls) = 1
             /\ BestCalls[1].answer = Ok(block_hash)

\* Both flags given and the node's hash for the number differs from --block-hash.
C1_Witness ==
    /\ block_hash.some
    /\ cli.block_number.some
    /\ cli.block_hash.some
    /\ block_hash # cli.block_hash
    /\ NumberCalls[1].answer = Ok(block_hash)

---------------------------------------------------------------------------
(* C2 *)

\* C2: when the node answers "no hash" for --block-number N, the process has
\* panicked with the message naming N, that call is the last request ever
\* made (no best-block lookup, no storage query), and nothing was resolved
\* even when --block-hash was given.
C2_MissingNumberIsFatal ==
    \A i \in LogIndex :
        (IsNumberCall(rpcLog[i]) /\ rpcLog[i].answer = Ok(None)) =>
            /\ Exited
            /\ exitCode = Some(ExitPanic)
            /\ stderr = MissingNumberMsg(cli.block_number.val)
            /\ stderr.val.arg = rpcLog[i].arg
            /\ i = Len(rpcLog)
            /\ ~maybe_block_hash.some
            /\ ~block_hash.some
            /\ \A j \in LogIndex : ~IsStorageQuery(rpcLog[j]) /\ ~IsBestCall(rpcLog[j])

\* --block-number 500 with --block-hash also given, and no block 500.
C2_Witness ==
    /\ cli.block_number = Some(U32(0, 500))
    /\ cli.block_hash.some
    /\ Len(NumberCalls) = 1
    /\ NumberCalls[1].answer = Ok(None)
    /\ Exited
    /\ stderr.val.arg = Some(U32(0, 500))

---------------------------------------------------------------------------
(* C3 *)

\* C3: the no-argument best-block lookup is requested at most once; never
\* when --block-number or --block-hash is set; and exactly once by the time
\* resolution is over when neither is set.
C3_BestLookupOnce ==
    /\ Len(BestCalls) <= 1
    /\ (cli.block_number.some \/ cli.block_hash.some) => Len(BestCalls) = 0
    /\ (~cli.block_number.some /\ ~cli.block_hash.some /\ Connected
        /\ pc \notin {"resolve", "best"}) => Len(BestCalls) = 1

\* No flags, the run is over and the best block was asked for once.
C3_Witness ==
    /\ ~cli.block_number.some
    /\ ~cli.block_hash.some
    /\ Exited
    /\ exitCode = Some(ExitSuccess)
    /\ Len(BestCalls) = 1
    /\ \E i \in LogIndex : IsStorageQuery(rpcLog[i])

---------------------------------------------------------------------------
(* C4 *)

\* C4: with only --block-hash set, no chain_getBlockHash request is ever
\* made, the resolved hash is --block-hash itself, and the run can fail only
\* at the connection or at a storage query made after resolution.
C4_ExplicitHashUnchecked ==
    (~cli.block_number.some /\ cli.block_hash.some) =>
        /\ \A i \in LogIndex : ~IsBlockHashCall(rpcLog[i])
        /\ pc \notin {"build", "resolve"} /\ Connected
               => maybe_block_hash = cli.block_hash
        /\ pc \notin {"build", "resolve", "best"} /\ Connected
               => block_hash = cli.block_hash
        /\ (Exited /\ exitCode # Some(ExitSuccess)) =>
               \/ ~Connected
               \/ \E i \in LogIndex : IsStorageQuery(rpcLog[i])

\* Only --block-hash given; the first request after connecting is a storage
\* query at that hash, and it is there that the node reports a failure.
C4_Witness ==
    /\ ~cli.block_number.some
    /\ cli.block_hash = Some("0xbb")
    /\ block_hash = Some("0xbb")
    /\ Len(rpcLog) = 2
    /\ IsStorageQuery(rpcLog[2])
    /\ rpcLog[2].at = Some("0xbb")
    /\ ~rpcLog[2].answer.ok

---------------------------------------------------------------------------
(* C5 *)

\* C5: an invocation that has exited did so with status 0 exactly when no
\* resolution, transport or decode failure occurred, and with an error
\* message when one did.
C5_FailureExitsNonZero ==
    Exited =>
        /\ (exitCode = Some(ExitSuccess)) <=> ~Failed
        /\ Failed => stderr.some

---------------------------------------------------------------------------
(* C6 *)

\* C6: a key whose remainder after the 80 leading hex characters is not
\* exactly 4 bytes never yields a number: every printed line comes from a
\* key of exactly prefix + 4 bytes.
C6_WrongLengthFails ==
    iter.some =>
        \A k \in 1..Len(stdout) :
            Len(iter.val.items[k].key) = PrefixLen + U32Bytes

---------------------------------------------------------------------------
(* C7 *)

\* The number of items of the cursor that went through main.rs:118-122.
Processed == IF iter.some THEN (IF pc = "decode" THEN iter.val.pos - 1 ELSE iter.val.pos)
             ELSE 0

\* C7: every cursor item whose key is a 40-byte prefix followed by the
\* 4-byte little-endian encoding of n is printed with exactly the number n.
C7_RoundTrip ==
    \A k \in 1..Processed :
        \A pn \in WellFormedPairs :
            iter.val.items[k].key = WellFormedKey(pn[1], pn[2]) =>
                /\ k <= Len(stdout)
                /\ stdout[k].number = pn[2]

\* u32::MAX, 0x01020304 (all four bytes different) came back as themselves.
C7_Witness ==
    /\ iter.some
    /\ Len(stdout) = 2
    /\ iter.val.items[1].key = WellFormedKey(OnesPrefix, U32Max)
    /\ iter.val.items[2].key = WellFormedKey(MixedPrefix, U32(258, 772))
    /\ stdout[1].number = U32Max
    /\ stdout[2].number = U32(258, 772)

---------------------------------------------------------------------------
(* C8 *)

\* Every storage query made so far was made after resolution, at the
\* resolved hash.
QueriesAtResolvedHash ==
    \A i \in LogIndex :
        IsStorageQuery(rpcLog[i]) => /\ block_hash.some
                                     /\ rpcLog[i].at = block_hash

\* C8: no storage query precedes resolution, every storage query is made at
\* the resolved hash, and the resolved hash, once set, never changes.
C8_OneResolvedHash ==
    /\ []QueriesAtResolvedHash
    /\ [][block_hash.some => block_hash' = block_hash]_vars

\* Three queries of one listing, all at the hash the node gave for the
\* number, which is not the --block-hash given.
C8_Witness ==
    /\ cli.block_number.some
    /\ cli.block_hash = Some("0xaa")
    /\ block_hash = Some("0xcc")
    /\ Len(rpcLog) = 5
    /\ \A i \in 3..5 : IsStorageQuery(rpcLog[i]) /\ rpcLog[i].at = Some("0xcc")

---------------------------------------------------------------------------
(* C9 *)

\* C9: in `system block-hash` the printed lines are at every moment the
\* entries of the first items of the cursor, in the cursor's order; the
\* cursor is advanced by one item only when every item before it has been
\* printed; at most one request is made per item plus one for the end; and a
\* listing without failure exits 0 with one line per item (none for an
\* empty map).
C9_ListingFollowsCursor ==
    iter.some =>
        /\ Len(stdout) <= iter.val.pos
        /\ iter.val.pos <= Len(iter.val.items)
        /\ stdout = Entries(Len(stdout))
        /\ pc = "iter" => Len(stdout) = iter.val.pos
        /\ pc = "decode" => Len(stdout) = iter.val.pos - 1
        /\ Len(NextCalls) <= Len(iter.val.items) + 1
        /\ \A j \in 1..Len(NextCalls) :
               NextCalls[j].answer.ok =>
                   NextCalls[j].answer.val =
                       IF j <= Len(iter.val.items) THEN Some(iter.val.items[j]) ELSE None
        /\ (Exited /\ ~Failed) =>
               /\ exitCode = Some(ExitSuccess)
               /\ Len(stdout) = Len(iter.val.items)
               /\ Len(NextCalls) = Len(iter.val.items) + 1

\* A finished listing of two entries that are not in numeric order.
C9_Witness ==
    /\ iter.some
    /\ Exited
    /\ exitCode = Some(ExitSuccess)
    /\ Len(iter.val.items) = 2
    /\ Len(stdout) = 2
    /\ stdout[1] = [number |-> U32(0, 500), hash |-> "0xaa"]
    /\ stdout[2] = [number |-> U32(0, 1), hash |-> "0xbb"]

---------------------------------------------------------------------------
(* C10 *)

\* A cursor item that does not decode, or a failed cursor request, ended
\* the listing right there: the lines printed are those of the items before
\* it.
ListingStopsAtFailure ==
    iter.some =>
        /\ \A k \in 1..Processed :
               DecodeKey(iter.val.items[k].key).tag # "ok" =>
                   /\ Exited
                   /\ exitCode # Some(ExitSuccess)
                   /\ k = iter.val.pos
                   /\ Len(stdout) = k - 1
                   /\ stdout = Entries(k - 1)
        /\ (\E j \in 1..Len(NextCalls) : ~NextCalls[j].answer.ok) =>
               /\ Exited
               /\ exitCode # Some(ExitSuccess)
               /\ Len(NextCalls) = iter.val.pos + 1
               /\ stdout = Entries(iter.val.pos)

\* C10: after any failure no request is made, nothing more is printed and
\* the cursor is not advanced; a failure on the k-th cursor item leaves
\* exactly the first k-1 entries printed.
C10_FailureIsTerminal ==
    /\ []ListingStopsAtFailure
    /\ [][Failed => (rpcLog' = rpcLog /\ stdout' = stdout /\ iter' = iter /\ Exited)]_vars

\* The second cursor item has a 2-byte remainder: one line printed, then
\* the error.
C10_Witness ==
    /\ iter.some
    /\ Exited
    /\ DecodeFailed
    /\ iter.val.pos = 2
    /\ Len(iter.val.items) = 2
    /\ Len(stdout) = 1
    /\ exitCode = Some(ExitFailure)

=============================================================================
